---------------------------- MODULE Spec2Model ----------------------------
(***************************************************************************)
(* Movie recommender notebooks: Collaborative.ipynb (with the app1.py it   *)
(* writes) and Hybrid.ipynb (with the app4.py it writes).                  *)
(*                                                                         *)
(* Real numbers are fixed-point integers in thousandths of a rating point  *)
(* (5.0 is 5000); a product of two such numbers is divided by Scale.       *)
(* NaN is a value of its own with IEEE comparison (every order test that   *)
(* involves NaN is false).                                                 *)
(*                                                                         *)
(* The notebooks call the Surprise, scikit-learn, pandas and Streamlit     *)
(* libraries; a library call is modelled by what the call does with the    *)
(* arguments and defaults the notebook gives it, at the line of the call.  *)
(***************************************************************************)
EXTENDS Integers, Sequences, FiniteSets, TLC

(***************************************************************************)
(* Bounds of the model.                                                    *)
(***************************************************************************)
\* rows of cleaned_movie_ratings.csv
MaxRows == 3
\* distinct states the process-wide (unseeded) random generator can start in
NStreams == 2
\* largest number of recommendations asked for (the sliders give 5..20 and
\* 5..50 over thousands of movies; the model has three movies)
MaxN == 2
\* SVD() defaults n_epochs = 20, n_factors = 100, scaled down
n_epochs == 2
n_factors == 2
\* kneighbors(..., n_neighbors=200), scaled down to the model's row count
n_neighbors == 3
\* most predictions an evaluation cell is given on its own
MaxTest == 2

(***************************************************************************)
(* Program constants.                                                      *)
(***************************************************************************)
Scale == 10 * 10 * 10
\* the latent factors are kept a hundred times finer than the ratings, so
\* that a step of size lr_all times an error times a factor is not rounded
\* away
FactorUnit == 10 * 10
NaN == 0 - 1000000
\* random_state=None
NoSeed == 0 - 1
\* Reader(rating_scale=(0.5, 5.0))
lower_bound == 500
higher_bound == 5000
\* train_test_split(data, test_size=0.2, random_state=42)
test_size_pct == 20
random_state == 42
\* threshold = 3.5
threshold == 3500
\* SVD() defaults: lr_all = .005, reg_all = .02, init_mean = 0, init_std_dev = .1
lr_all == 5
reg_all == 20

(***************************************************************************)
(* The data: one row per rating, joined with the rated movie's metadata.   *)
(***************************************************************************)
Users == {1, 2}
\* st.number_input("Enter User ID:", min_value=1, step=1): any id >= 1, so
\* also ids of no row
UiUsers == {1, 2, 3}
Movies == {10, 20, 30}
Programs == {"collaborative", "hybrid_eval", "app4"}

\* Two movies share a title (a remake); one has no vote_average and no genres.
Title(m) == CASE m = 10 -> "A" [] m = 20 -> "B" [] OTHER -> "B"
VoteAverage(m) == CASE m = 10 -> 7000 [] m = 20 -> 6000 [] OTHER -> NaN
\* the genre words of a movie; none where the csv has no genres (the NaN
\* that app4.py fills with '')
Genres(m) == CASE m = 10 -> {"action"} [] m = 20 -> {"action", "comedy"} [] OTHER -> {}

\* what each user thinks of each movie: the lowest or the highest rating of
\* the scale
Rating(u, m) ==
  IF (u = 1 /\ m # 20) \/ (u = 2 /\ m = 20) THEN higher_bound ELSE lower_bound

Row(u, m) ==
  [userId |-> u, movieId |-> m, rating |-> Rating(u, m), title |-> Title(m),
   vote_average |-> VoteAverage(m), genres |-> Genres(m)]

\* the ratings there are: user 2 has not rated movie 30
Rated == (Users \X Movies) \ {<<2, 30>>}

\* the rows a csv can hold: one rating for a user and a movie, in any order
RowSet == {Row(um[1], um[2]) : um \in Rated}

Csvs == {c \in UNION {[1..k -> RowSet] : k \in 1..MaxRows} :
           \A a, b \in 1..Len(c) : a # b => c[a] # c[b]}

\* rows a csv that was not cleaned can also hold: a rating above the scale,
\* a rating without userId
OutOfScaleRow == [Row(2, 30) EXCEPT !.rating = higher_bound + Scale]
AbsentUserRow == [Row(1, 20) EXCEPT !.userId = NaN]

RawCsvs == {c \in UNION {[1..k -> RowSet \cup {OutOfScaleRow, AbsentUserRow}] : k \in 1..MaxRows} :
              \A a, b \in 1..Len(c) : a # b => c[a] # c[b]}

Range(s) == {s[k] : k \in 1..Len(s)}

\* ratings and predictions an evaluation cell can meet: below, at and above
\* the threshold
Scores == {2000, threshold, 4000, 4500, higher_bound}

\* the (y_true, y_pred) an evaluation cell can be given
ScoredSets ==
  UNION {[y_true : [1..k -> Scores], y_pred : [1..k -> Scores]] : k \in 1..MaxTest}

(***************************************************************************)
(* Floating-point helpers.                                                 *)
(***************************************************************************)
IsNaN(x) == x = NaN
FAdd(a, b) == IF IsNaN(a) \/ IsNaN(b) THEN NaN ELSE a + b
FSub(a, b) == IF IsNaN(a) \/ IsNaN(b) THEN NaN ELSE a - b
FMul(a, b) == IF IsNaN(a) \/ IsNaN(b) THEN NaN ELSE (a * b) \div Scale
FHalf(a) == IF IsNaN(a) THEN NaN ELSE a \div 2
FLt(a, b) == ~IsNaN(a) /\ ~IsNaN(b) /\ a < b
FGe(a, b) == ~IsNaN(a) /\ ~IsNaN(b) /\ a >= b
\* Python's min(a, b) and max(a, b): the first argument unless the second
\* compares smaller (larger)
PyMin(a, b) == IF FLt(b, a) THEN b ELSE a
PyMax(a, b) == IF FLt(a, b) THEN b ELSE a

RECURSIVE SumSeq(_)
SumSeq(s) == IF Len(s) = 0 THEN 0 ELSE FAdd(s[1], SumSeq(Tail(s)))

\* np.mean: NaN for no values
Mean(s) == IF Len(s) = 0 THEN NaN ELSE SumSeq(s) \div Len(s)

\* the positions a boolean mask selects, in order
RECURSIVE SelectIdx(_)
SelectIdx(mask) ==
  IF Len(mask) = 0 THEN << >>
  ELSE LET front == SelectIdx(SubSeq(mask, 1, Len(mask) - 1))
       IN IF mask[Len(mask)] THEN Append(front, Len(mask)) ELSE front

\* first occurrences, in order (pandas unique / drop_duplicates keep='first')
RECURSIVE Unique(_)
Unique(s) ==
  IF Len(s) = 0 THEN << >>
  ELSE LET front == Unique(SubSeq(s, 1, Len(s) - 1))
           last == s[Len(s)]
       IN IF last \in Range(front) THEN front ELSE Append(front, last)

(***************************************************************************)
(* State.                                                                  *)
(***************************************************************************)
VARIABLES
  program,    \* which script runs
  csv,        \* the rows of cleaned_movie_ratings.csv
  pc,         \* "start", "loaded", "split", "fit", "ready", "crashed"
  df,         \* the DataFrame the script works on
  trainset,   \* row numbers of df in the training set, in order
  testset,    \* row numbers of df in the test set, in order
  algo,       \* the SVD object: global mean, id maps, bu, bi, pu, qi
  fitpos,     \* <<epoch, position in the epoch>> of the running fit
  ui,         \* what the last cell or click produced
  clicked,    \* app4.py: the script runs because Recommend was clicked
  prev        \* the split and the fitted model of the previous process

vars == <<program, csv, pc, df, trainset, testset, algo, fitpos, ui, clicked, prev>>

None == [kind |-> "none"]

(***************************************************************************)
(* Loading.                                                                *)
(***************************************************************************)
\* DataFrame.dropna(subset=["userId", "movieId", "rating", "vote_average"])
DropNa(rows) ==
  LET keep == SelectIdx([k \in 1..Len(rows) |->
                           /\ ~IsNaN(rows[k].userId) /\ ~IsNaN(rows[k].movieId)
                           /\ ~IsNaN(rows[k].rating) /\ ~IsNaN(rows[k].vote_average)])
  IN [j \in 1..Len(keep) |-> rows[keep[j]]]

\* pd.read_csv and what each script does to the frame right away
ReadCsv(prog, rows) == IF prog = "hybrid_eval" THEN DropNa(rows) ELSE rows

(***************************************************************************)
(* train_test_split (surprise.model_selection.ShuffleSplit, one split).    *)
(***************************************************************************)
PermsOf(n) == {p \in [1..n -> 1..n] : \A a, b \in 1..n : a # b => p[a] # p[b]}

\* numpy RandomState(42).permutation(n), row numbers from 1
SeededPermutation(n) ==
  CASE n = 1 -> <<1>>
    [] n = 2 -> <<2, 1>>
    [] n = 3 -> <<1, 2, 3>>
    [] n = 4 -> <<2, 4, 1, 3>>
    [] n = 5 -> <<2, 5, 3, 1, 4>>
    [] n = 6 -> <<1, 2, 6, 3, 5, 4>>
    [] OTHER -> [k \in 1..n |-> k]

\* the permutations rng.permutation(n) can return: one for a seed, any for
\* random_state=None
ShuffleOutcomes_unseeded(n, seed) == PermsOf(n)

ShuffleOutcomes(n, seed) ==
  IF seed = NoSeed THEN PermsOf(n) ELSE {SeededPermutation(n)}

\* test_size a float: ceil(test_size * n_ratings)
NTest(n) == (test_size_pct * n + 99) \div 100

\* the first n_train of the permutation train, the n_test after them test
TrainPart(perm) == SubSeq(perm, 1, Len(perm) - NTest(Len(perm)))

TestPart(perm) == SubSeq(perm, Len(perm) - NTest(Len(perm)) + 1, Len(perm))

(***************************************************************************)
(* The Surprise Trainset and the SVD algorithm.                            *)
(***************************************************************************)
\* 1-based position of x in s, 0 when absent (to_inner_uid raising
\* ValueError, which predict turns into an unknown id)
IndexOf(s, x) ==
  IF x \in Range(s) THEN CHOOSE k \in 1..Len(s) : s[k] = x /\ \A j \in 1..(k - 1) : s[j] # x
  ELSE 0

\* Dataset.construct_trainset: inner ids in order of first appearance
TrainUsers(frame, rows) == Unique([k \in 1..Len(rows) |-> frame[rows[k]].userId])
TrainItems(frame, rows) == Unique([k \in 1..Len(rows) |-> frame[rows[k]].movieId])

RECURSIVE Concat(_)
Concat(ss) == IF Len(ss) = 0 THEN << >> ELSE ss[1] \o Concat(Tail(ss))

\* Trainset.all_ratings(): user by user in inner-id order, each user's
\* ratings in the order they were read; <<inner uid, inner iid, rating>>
AllRatings(frame, rows) ==
  LET us == TrainUsers(frame, rows)
      is == TrainItems(frame, rows)
      OfUser(u) ==
        LET ks == SelectIdx([k \in 1..Len(rows) |-> frame[rows[k]].userId = us[u]])
        IN [j \in 1..Len(ks) |->
              <<u, IndexOf(is, frame[rows[ks[j]]].movieId), frame[rows[ks[j]]].rating>>]
  IN Concat([u \in 1..Len(us) |-> OfUser(u)])

\* the k-th value rng.normal(0, .1) returns when the generator started in
\* state s
Normal(s, k) == (((s * 3 + k * 5) % 7) - 3) * 50 * FactorUnit

\* the generator states SVD() can draw from: random_state is not given, so
\* the process-wide generator in whatever state it starts
RngOutcomes(seed) == IF seed = NoSeed THEN 1..NStreams ELSE {1}

\* SVD.sgd before the first epoch: biases zero, factors drawn, pu before qi
InitAlgo(frame, rows, s) ==
  LET us == TrainUsers(frame, rows)
      is == TrainItems(frame, rows)
  IN [global_mean |-> Mean([k \in 1..Len(rows) |-> frame[rows[k]].rating]),
      users |-> us,
      items |-> is,
      bu |-> [u \in 1..Len(us) |-> 0],
      bi |-> [i \in 1..Len(is) |-> 0],
      pu |-> [u \in 1..Len(us) |-> [f \in 1..n_factors |-> Normal(s, (u - 1) * n_factors + f)]],
      qi |-> [i \in 1..Len(is) |->
                [f \in 1..n_factors |-> Normal(s, (Len(us) + i - 1) * n_factors + f)]]]

RECURSIVE DotUpTo(_, _, _)
DotUpTo(p, q, f) ==
  IF f = 0 THEN 0
  ELSE FAdd(DotUpTo(p, q, f - 1),
            IF IsNaN(q[f]) \/ IsNaN(p[f]) THEN NaN ELSE (q[f] * p[f]) \div (Scale * FactorUnit * FactorUnit))

Dot(p, q) == DotUpTo(p, q, n_factors)

\* lr * (err - reg * b)
BiasStep(err, b) == FMul(lr_all, FSub(err, FMul(reg_all, b)))

\* lr * (err * other - reg * own)
FactorStep(err, own, other) == FMul(lr_all, FSub(FMul(err, other), FMul(reg_all, own)))

\* a step whose item factors are moved with the user factors it has just
\* moved
SgdStep_sequential(a, u, i, r) ==
  LET dot == Dot(a.pu[u], a.qi[i])
      err == FSub(r, FAdd(FAdd(FAdd(a.global_mean, a.bu[u]), a.bi[i]), dot))
      pu_new == [f \in 1..n_factors |-> FAdd(a.pu[u][f], FactorStep(err, a.pu[u][f], a.qi[i][f]))]
  IN [a EXCEPT
        !.bu[u] = FAdd(@, BiasStep(err, @)),
        !.bi[i] = FAdd(@, BiasStep(err, @)),
        !.pu[u] = pu_new,
        !.qi[i] = [f \in 1..n_factors |-> FAdd(@[f], FactorStep(err, @[f], pu_new[f]))]]

\* one pass of the inner loop of SVD.sgd, for the rating r of inner user u
\* on inner item i
SgdStep(a, u, i, r) ==
  LET dot == Dot(a.pu[u], a.qi[i])
      err == FSub(r, FAdd(FAdd(FAdd(a.global_mean, a.bu[u]), a.bi[i]), dot))
  IN [a EXCEPT
        !.bu[u] = FAdd(@, BiasStep(err, @)),
        !.bi[i] = FAdd(@, BiasStep(err, @)),
        !.pu[u] = [f \in 1..n_factors |-> FAdd(@[f], FactorStep(err, @[f], a.qi[i][f]))],
        !.qi[i] = [f \in 1..n_factors |-> FAdd(@[f], FactorStep(err, @[f], a.pu[u][f]))]]

\* AlgoBase.predict's clipping to the trainset's rating scale
Clip_off(est) == est

Clip(est) == PyMax(lower_bound, PyMin(higher_bound, est))

\* SVD.estimate with biased=True; u, i are inner ids, 0 for an unknown id
Estimate_impossible(a, u, i) ==
  IF u = 0 \/ i = 0 THEN a.global_mean
  ELSE FAdd(FAdd(FAdd(a.global_mean, a.bu[u]), a.bi[i]), Dot(a.pu[u], a.qi[i]))

Estimate(a, u, i) ==
  LET e0 == a.global_mean
      e1 == IF u # 0 THEN FAdd(e0, a.bu[u]) ELSE e0
      e2 == IF i # 0 THEN FAdd(e1, a.bi[i]) ELSE e1
  IN IF u # 0 /\ i # 0 THEN FAdd(e2, Dot(a.pu[u], a.qi[i])) ELSE e2

\* AlgoBase.predict(uid, iid).est, from raw ids
Predict(a, uid, iid) == Clip(Estimate(a, IndexOf(a.users, uid), IndexOf(a.items, iid)))

(***************************************************************************)
(* get_top_n_recommendations (Collaborative.ipynb and app1.py).            *)
(***************************************************************************)
\* the key a goes before the key b in a descending sort: it is larger, or
\* b is NaN and a is not (sort_values puts NaN last; sorted() meets no NaN,
\* est being clipped)
KeyBefore(a, b) == FLt(b, a) \/ (~IsNaN(a) /\ IsNaN(b))

\* position k put into the ordered positions t, behind every position whose
\* key it does not go before
RECURSIVE InsertDesc(_, _, _)
InsertDesc(t, keys, k) ==
  IF Len(t) = 0 THEN <<k>>
  ELSE IF KeyBefore(keys[k], keys[t[Len(t)]]) THEN Append(InsertDesc(SubSeq(t, 1, Len(t) - 1), keys, k), t[Len(t)])
  ELSE Append(t, k)

RECURSIVE OrderDesc(_, _)
OrderDesc(keys, n) == IF n = 0 THEN << >> ELSE InsertDesc(OrderDesc(keys, n - 1), keys, n)

\* sorted(s, key=..., reverse=True): s by falling key, members of equal key
\* in their order in s
SortDesc(s, keys) ==
  LET o == OrderDesc(keys, Len(s)) IN [j \in 1..Len(s) |-> s[o[j]]]

Head_n(s, n) == SubSeq(s, 1, IF n < Len(s) THEN n ELSE Len(s))

\* round(est, 2): to the nearest hundredth, a tie to the even one
Round2(x) ==
  LET lo == (x \div 10) * 10
      rem == x - lo
  IN IF rem < 5 THEN lo
     ELSE IF rem > 5 THEN lo + 10
     ELSE IF (lo \div 10) % 2 = 0 THEN lo ELSE lo + 10

\* df[['movieId', 'title']].drop_duplicates().set_index('movieId')['title']
\* .to_dict(), then .get(iid, 'Unknown'): the last pair of a key wins
MovieMapGet(frame, iid) ==
  LET pairs == Unique([k \in 1..Len(frame) |-> <<frame[k].movieId, frame[k].title>>])
      ks == {k \in 1..Len(pairs) : pairs[k][1] = iid}
  IN IF ks = {} THEN "Unknown" ELSE pairs[CHOOSE k \in ks : \A j \in ks : j <= k][2]

\* df[['title', 'movieId']].drop_duplicates().set_index('title')['movieId']
\* .to_dict(), then .get(title)
TitleMapGet(frame, title) ==
  LET pairs == Unique([k \in 1..Len(frame) |-> <<frame[k].title, frame[k].movieId>>])
      ks == {k \in 1..Len(pairs) : pairs[k][1] = title}
  IN pairs[CHOOSE k \in ks : \A j \in ks : j <= k][2]

RatedMovies(frame, user_id) ==
  {frame[k].movieId : k \in {j \in 1..Len(frame) : frame[j].userId = user_id}}

AllMovies(frame) == Unique([k \in 1..Len(frame) |-> frame[k].movieId])

ToPredict_all(frame, user_id) == AllMovies(frame)

\* [m for m in all_movies if m not in rated_movies]
ToPredict(frame, user_id) ==
  LET all == AllMovies(frame)
      ks == SelectIdx([k \in 1..Len(all) |-> all[k] \notin RatedMovies(frame, user_id)])
  IN [j \in 1..Len(ks) |-> all[ks[j]]]

TopPreds_ascending(frame, a, user_id, n) ==
  LET tp == ToPredict(frame, user_id)
      predictions == [k \in 1..Len(tp) |-> [iid |-> tp[k], est |-> Predict(a, user_id, tp[k])]]
  IN Head_n(SortDesc(predictions, [k \in 1..Len(tp) |-> FSub(0, predictions[k].est)]), n)

\* sorted(predictions, key=lambda x: x.est, reverse=True)[:n]
TopPreds(frame, a, user_id, n) ==
  LET tp == ToPredict(frame, user_id)
      predictions == [k \in 1..Len(tp) |-> [iid |-> tp[k], est |-> Predict(a, user_id, tp[k])]]
  IN Head_n(SortDesc(predictions, [k \in 1..Len(tp) |-> predictions[k].est]), n)

\* the list get_top_n_recommendations returns: (title, rounded estimate)
TopRecs(frame, top_preds) ==
  [k \in 1..Len(top_preds) |->
     [title |-> MovieMapGet(frame, top_preds[k].iid), score |-> Round2(top_preds[k].est)]]

(***************************************************************************)
(* Evaluation cells.                                                       *)
(***************************************************************************)
\* a test over every rating of the frame, training ratings included
TestPredictions_all(frame, rows, a) ==
  [k \in 1..Len(frame) |->
     [uid |-> frame[k].userId, iid |-> frame[k].movieId, r_ui |-> frame[k].rating,
      est |-> Clip(Estimate(a, IndexOf(a.users, frame[k].userId), IndexOf(a.items, frame[k].movieId)))]]

\* svd.test(testset): one prediction per test rating, in order
TestPredictions(frame, rows, a) ==
  [k \in 1..Len(rows) |->
     [uid |-> frame[rows[k]].userId, iid |-> frame[rows[k]].movieId,
      r_ui |-> frame[rows[k]].rating,
      est |-> Predict(a, frame[rows[k]].userId, frame[rows[k]].movieId)]]

\* df.drop_duplicates("movieId").set_index("movieId")["vote_average"], then
\* Series.map: the first row of the movie, NaN for a movie of no row
VoteAvgOf(frame, iid) ==
  LET ks == {k \in 1..Len(frame) : frame[k].movieId = iid}
  IN IF ks = {} THEN NaN ELSE frame[CHOOSE k \in ks : \A j \in ks : k <= j].vote_average

HybridScore_weighted(vote_average, svd_score) == FHalf(FAdd(FHalf(vote_average), svd_score))

\* (vote_average + svd_score) / 2
HybridScore(vote_average, svd_score) == FHalf(FAdd(vote_average, svd_score))

\* pred_df of Hybrid.ipynb after dropna, with its hybrid_pred column
HybridPredDf(frame, rows, a) ==
  LET preds == TestPredictions(frame, rows, a)
      keep == SelectIdx([k \in 1..Len(preds) |-> ~IsNaN(VoteAvgOf(frame, preds[k].iid))
                                             /\ ~IsNaN(preds[k].r_ui) /\ ~IsNaN(preds[k].est)])
  IN [j \in 1..Len(keep) |->
        [userId |-> preds[keep[j]].uid, movieId |-> preds[keep[j]].iid,
         actual |-> preds[keep[j]].r_ui, svd_pred |-> preds[keep[j]].est,
         vote_average |-> VoteAvgOf(frame, preds[keep[j]].iid),
         hybrid_pred |-> HybridScore(VoteAvgOf(frame, preds[keep[j]].iid), preds[keep[j]].est)]]

\* y_true and y_pred of the evaluation cells: actual and est of every
\* prediction (Collaborative.ipynb), actual and hybrid_pred of every row of
\* pred_df (Hybrid.ipynb)
YTrue(prog, predictions, pred_df) ==
  IF prog = "hybrid_eval" THEN [k \in 1..Len(pred_df) |-> pred_df[k].actual]
  ELSE [k \in 1..Len(predictions) |-> predictions[k].r_ui]

YPred(prog, predictions, pred_df) ==
  IF prog = "hybrid_eval" THEN [k \in 1..Len(pred_df) |-> pred_df[k].hybrid_pred]
  ELSE [k \in 1..Len(predictions) |-> predictions[k].est]

Binarize_strict(r) == IF FLt(threshold, r) THEN 1 ELSE 0

\* 1 if r >= threshold else 0
Binarize(r) == IF FGe(r, threshold) THEN 1 ELSE 0

\* how many k have y_true_bin[k] = t and y_pred_bin[k] = q
Count(y_true_bin, y_pred_bin, t, q) ==
  Cardinality({k \in 1..Len(y_true_bin) : y_true_bin[k] = t /\ y_pred_bin[k] = q})

\* a ratio kept exact, as numerator and denominator
Frac(n, d) == [num |-> n, den |-> d]

PrfDivide_one(n, d) == IF d = 0 THEN Frac(1, 1) ELSE Frac(n, d)

\* sklearn's division for precision, recall and f-score (zero_division left
\* at "warn"): 0.0 and a warning where the denominator is 0
PrfDivide(n, d) == IF d = 0 THEN Frac(0, 1) ELSE Frac(n, d)

\* accuracy_score, precision_score, recall_score, f1_score on the binary
\* labels; f1 is 2 * precision * recall / (precision + recall)
ClassificationMetrics(y_true, y_pred) ==
  LET y_true_bin == [k \in 1..Len(y_true) |-> Binarize(y_true[k])]
      y_pred_bin == [k \in 1..Len(y_pred) |-> Binarize(y_pred[k])]
      tp == Count(y_true_bin, y_pred_bin, 1, 1)
      fp == Count(y_true_bin, y_pred_bin, 0, 1)
      fn == Count(y_true_bin, y_pred_bin, 1, 0)
      tn == Count(y_true_bin, y_pred_bin, 0, 0)
      precision == PrfDivide(tp, tp + fp)
      recall == PrfDivide(tp, tp + fn)
  IN [y_true_bin |-> y_true_bin, y_pred_bin |-> y_pred_bin,
      accuracy |-> Frac(tp + tn, Len(y_true)),
      precision |-> precision,
      recall |-> recall,
      f1 |-> PrfDivide(2 * precision.num * recall.num,
                       precision.num * recall.den + recall.num * precision.den)]

\* the largest integer of lo..hi whose square is at most x
RECURSIVE ISqrtIn(_, _, _)
ISqrtIn(x, lo, hi) ==
  IF lo >= hi THEN lo
  ELSE LET mid == (lo + hi + 1) \div 2
       IN IF mid * mid <= x THEN ISqrtIn(x, mid, hi) ELSE ISqrtIn(x, lo, mid - 1)

\* the square root, in the unit of the errors
ISqrt(x) == ISqrtIn(x, 0, higher_bound)

\* mean_squared_error(y_true, y_pred, squared=False) and
\* mean_absolute_error(y_true, y_pred), with the number of samples
RegressionMetrics(y_true, y_pred) ==
  LET abs(x) == IF x < 0 THEN 0 - x ELSE x
      errs == [k \in 1..Len(y_true) |-> abs(y_true[k] - y_pred[k])]
      sq == [k \in 1..Len(y_true) |-> errs[k] * errs[k]]
  IN [n_samples |-> Len(y_true),
      rmse |-> ISqrt(SumSeq(sq) \div Len(y_true)),
      mae |-> SumSeq(errs) \div Len(y_true)]

\* what an evaluation cell leaves behind
EvaluationCell(predictions, pred_df, y_true, y_pred) ==
  [kind |-> "evaluation", predictions |-> predictions, pred_df |-> pred_df,
   y_true |-> y_true, y_pred |-> y_pred,
   regression |-> RegressionMetrics(y_true, y_pred),
   classification |-> ClassificationMetrics(y_true, y_pred)]

(***************************************************************************)
(* recommend_hybrid (app4.py).                                             *)
(***************************************************************************)
\* 36 * cos^2 of two genre-word vectors; 0 for a vector of no words
Sim(g, h) ==
  IF g \cap h = {} THEN 0
  ELSE (Cardinality(g \cap h) * Cardinality(g \cap h) * 36) \div (Cardinality(g) * Cardinality(h))

\* TfidfVectorizer.fit_transform raises ValueError (empty vocabulary) when
\* no row has a genre word
EmptyVocabulary(frame) == \A k \in 1..Len(frame) : frame[k].genres = {}

\* what knn_model.kneighbors(tfidf_matrix[idx], n_neighbors) can return for
\* the row idx: n_neighbors rows by growing cosine distance, rows at the
\* same distance in an order the library leaves open
KNeighbors(frame, idx) ==
  {SubSeq(p, 1, n_neighbors) : p \in
     {q \in PermsOf(Len(frame)) :
        \A k \in 1..(Len(frame) - 1) :
           Sim(frame[idx].genres, frame[q[k]].genres) >= Sim(frame[idx].genres, frame[q[k + 1]].genres)}}

\* title_to_index[movie_title]: a title of several rows gives them all and
\* indices[0] is the answer for the first
TitleToIndex(frame, title) ==
  CHOOSE k \in 1..Len(frame) : frame[k].title = title /\ \A j \in 1..(k - 1) : frame[j].title # title

DropDuplicateTitles_off(frame, rows) == rows

\* recommendations.drop_duplicates(subset="title")
DropDuplicateTitles(frame, rows) ==
  LET ks == SelectIdx([k \in 1..Len(rows) |-> \A j \in 1..(k - 1) : frame[rows[j]].title # frame[rows[k]].title])
  IN [j \in 1..Len(ks) |-> rows[ks[j]]]

\* the candidates with their svd_score and hybrid_score columns
Scored(frame, a, user_id, rows) ==
  [k \in 1..Len(rows) |->
     [movieId |-> frame[rows[k]].movieId, title |-> frame[rows[k]].title,
      vote_average |-> frame[rows[k]].vote_average, genres |-> frame[rows[k]].genres,
      svd_score |-> Predict(a, user_id, frame[rows[k]].movieId),
      hybrid_score |-> HybridScore(frame[rows[k]].vote_average,
                                   Predict(a, user_id, frame[rows[k]].movieId))]]

\* what sort_values(by="hybrid_score", ascending=False) can return: the
\* rows by falling score, NaN scores last; its default quicksort is not
\* stable, so rows of equal score come in any order
SortValues(scored, keys) ==
  {[j \in 1..Len(scored) |-> scored[q[j]]] : q \in
     {p \in PermsOf(Len(scored)) :
        \A k \in 1..(Len(scored) - 1) : ~KeyBefore(keys[p[k + 1]], keys[p[k]])}}

SortHead_ascending(scored, n) ==
  {Head_n(t, n) : t \in SortValues(scored, [k \in 1..Len(scored) |-> FSub(0, scored[k].hybrid_score)])}

\* .sort_values(by="hybrid_score", ascending=False).head(n)
SortHead(scored, n) ==
  {Head_n(t, n) : t \in SortValues(scored, [k \in 1..Len(scored) |-> scored[k].hybrid_score])}

\* the candidate rows of recommend_hybrid for the neighbour list nb
Candidates(frame, nb) == DropDuplicateTitles(frame, Tail(nb))

\* the frames recommend_hybrid(movie_title, user_id, n) can return for the
\* neighbour list nb that kneighbors returned: the one-row Error frame, or
\* the top rows
RecommendHybrid(frame, a, movie_title, user_id, n, nb) ==
  IF \A k \in 1..Len(frame) : frame[k].title # movie_title
  THEN {[columns |-> "Error", rows |-> <<[Error |-> movie_title]>>]}
  ELSE {[columns |-> "recommendations", rows |-> top] :
          top \in SortHead(Scored(frame, a, user_id, Candidates(frame, nb)), n)}

\* the Recommend button's branch on the frame recommend_hybrid returned:
\* results.empty decides; selecting the five columns of a frame that lacks
\* them raises KeyError
Shown(results) ==
  IF Len(results.rows) = 0 THEN "warning"
  ELSE IF results.columns = "recommendations" THEN "table"
  ELSE "exception"

(***************************************************************************)
(* The scripts, step by step.                                              *)
(***************************************************************************)
Init ==
  /\ program \in Programs
  /\ csv \in Csvs
  /\ pc = "start"
  /\ df = << >>
  /\ trainset = << >>
  /\ testset = << >>
  /\ algo = None
  /\ fitpos = <<0, 0>>
  /\ ui = None
  /\ clicked = FALSE
  /\ prev = None

\* pd.read_csv(...) (with dropna in Hybrid.ipynb)
LoadData ==
  /\ pc = "start"
  /\ df' = ReadCsv(program, csv)
  /\ pc' = "loaded"
  /\ UNCHANGED <<program, csv, trainset, testset, algo, fitpos, ui, clicked, prev>>

\* train_test_split(data, test_size=0.2, random_state=42); app4.py takes
\* data.build_full_trainset() instead. No rating at all: ValueError.
Split ==
  /\ pc = "loaded"
  /\ IF program = "app4"
     THEN /\ trainset' = [k \in 1..Len(df) |-> k]
          /\ testset' = << >>
          /\ pc' = "split"
     ELSE IF Len(df) = 0
     THEN /\ pc' = "crashed"
          /\ UNCHANGED <<trainset, testset>>
     ELSE \E perm \in ShuffleOutcomes(Len(df), random_state) :
            /\ trainset' = TrainPart(perm)
            /\ testset' = TestPart(perm)
            /\ pc' = "split"
  /\ UNCHANGED <<program, csv, df, algo, fitpos, ui, clicked, prev>>

\* where the script stands once fit has returned: app4.py goes on to
\* TfidfVectorizer.fit_transform, which raises on an empty vocabulary
AfterFit(prog, frame) ==
  IF prog = "app4" /\ EmptyVocabulary(frame) THEN "crashed" ELSE "ready"

\* svd = SVD(); svd.fit(trainset), up to the first epoch
FitBegin ==
  /\ pc = "split"
  /\ \E s \in RngOutcomes(NoSeed) : algo' = InitAlgo(df, trainset, s)
  /\ IF Len(trainset) = 0
     THEN /\ fitpos' = <<n_epochs + 1, 1>>
          /\ pc' = AfterFit(program, df)
     ELSE /\ fitpos' = <<1, 1>>
          /\ pc' = "fit"
  /\ UNCHANGED <<program, csv, df, trainset, testset, ui, clicked, prev>>

\* a fit that stops at the end of an epoch whose last error is under one
\* rating point
FitStep_earlystop ==
  /\ pc = "fit"
  /\ LET ratings == AllRatings(df, trainset)
         e == fitpos[1]
         p == fitpos[2]
         t == ratings[p]
         err == FSub(t[3], FAdd(FAdd(FAdd(algo.global_mean, algo.bu[t[1]]), algo.bi[t[2]]),
                                Dot(algo.pu[t[1]], algo.qi[t[2]])))
         next == IF p < Len(ratings) THEN <<e, p + 1>> ELSE <<e + 1, 1>>
         converged == p = Len(ratings) /\ err < Scale /\ 0 - err < Scale
     IN /\ algo' = SgdStep(algo, t[1], t[2], t[3])
        /\ fitpos' = next
        /\ pc' = IF next[1] > n_epochs \/ converged THEN AfterFit(program, df) ELSE "fit"
  /\ UNCHANGED <<program, csv, df, trainset, testset, ui, clicked, prev>>

\* one rating of one epoch of SVD.sgd
FitStep ==
  /\ pc = "fit"
  /\ LET ratings == AllRatings(df, trainset)
         e == fitpos[1]
         p == fitpos[2]
         next == IF p < Len(ratings) THEN <<e, p + 1>> ELSE <<e + 1, 1>>
     IN /\ algo' = SgdStep(algo, ratings[p][1], ratings[p][2], ratings[p][3])
        /\ fitpos' = next
        /\ pc' = IF next[1] > n_epochs THEN AfterFit(program, df) ELSE "fit"
  /\ UNCHANGED <<program, csv, df, trainset, testset, ui, clicked, prev>>

\* a predict that folds what it returns into the model
PredictCell_online ==
  /\ pc = "ready"
  /\ program = "collaborative"
  /\ \E uid \in UiUsers, iid \in Movies :
       /\ ui' = [kind |-> "predict", uid |-> uid, iid |-> iid, est |-> Predict(algo, uid, iid)]
       /\ algo' = [algo EXCEPT !.global_mean = Predict(algo, uid, iid)]
  /\ UNCHANGED <<program, csv, pc, df, trainset, testset, fitpos, clicked, prev>>

\* Collaborative.ipynb: prediction = svd.predict(user_id, movie_id)
PredictCell ==
  /\ pc = "ready"
  /\ program = "collaborative"
  /\ \E uid \in UiUsers, iid \in Movies :
       ui' = [kind |-> "predict", uid |-> uid, iid |-> iid, est |-> Predict(algo, uid, iid)]
  /\ UNCHANGED <<program, csv, pc, df, trainset, testset, algo, fitpos, clicked, prev>>

\* app1.py: the Predict Rating button
PredictRating ==
  /\ pc = "ready"
  /\ program = "collaborative"
  /\ \E uid \in UiUsers, title \in {df[k].title : k \in 1..Len(df)} :
       LET movie_id == TitleMapGet(df, title)
       IN ui' = [kind |-> "predict", uid |-> uid, iid |-> movie_id,
                 est |-> Predict(algo, uid, movie_id)]
  /\ UNCHANGED <<program, csv, pc, df, trainset, testset, algo, fitpos, clicked, prev>>

\* app1.py: the Get Recommendations button (and the notebook's call)
GetRecommendations ==
  /\ pc = "ready"
  /\ program = "collaborative"
  /\ \E user_id \in UiUsers, n \in 1..MaxN :
       LET top_preds == TopPreds(df, algo, user_id, n)
           top_recs == TopRecs(df, top_preds)
       IN ui' = [kind |-> "recs", user_id |-> user_id, n |-> n,
                 top_preds |-> top_preds, top_recs |-> top_recs,
                 shown |-> IF Len(top_recs) > 0 THEN "table" ELSE "warning"]
  /\ UNCHANGED <<program, csv, pc, df, trainset, testset, algo, fitpos, clicked, prev>>

\* the evaluation cells: predictions = svd.test(testset)
Evaluate ==
  /\ pc = "ready"
  /\ program \in {"collaborative", "hybrid_eval"}
  /\ LET predictions == TestPredictions(df, testset, algo)
         pred_df == IF program = "hybrid_eval" THEN HybridPredDf(df, testset, algo) ELSE << >>
     IN ui' = EvaluationCell(predictions, pred_df, YTrue(program, predictions, pred_df),
                             YPred(program, predictions, pred_df))
  /\ UNCHANGED <<program, csv, pc, df, trainset, testset, algo, fitpos, clicked, prev>>

\* app4.py: a click on Recommend. Streamlit runs the script again from the
\* top for the click and nothing of app4.py is cached: the csv is read and
\* the model fitted anew before the button's branch runs.
Recommend ==
  /\ pc = "ready"
  /\ program = "app4"
  /\ ~clicked
  /\ clicked' = TRUE
  /\ pc' = "start"
  /\ df' = << >>
  /\ trainset' = << >>
  /\ testset' = << >>
  /\ algo' = None
  /\ fitpos' = <<0, 0>>
  /\ ui' = None
  /\ UNCHANGED <<program, csv, prev>>

\* app4.py: the branch of st.button("Recommend") in the run the click
\* started, with the widgets' values. kneighbors raises ValueError when
\* asked for more neighbours than there are rows.
RecommendClicked ==
  /\ pc = "ready"
  /\ program = "app4"
  /\ clicked
  /\ clicked' = FALSE
  /\ \E movie_input \in {df[k].title : k \in 1..Len(df)}, user_id \in UiUsers, n \in 1..MaxN :
       IF Len(df) < n_neighbors
       THEN ui' = [kind |-> "hybrid", movie_title |-> movie_input, user_id |-> user_id,
                   n |-> n, nb |-> << >>, scored |-> << >>, results |-> << >>,
                   shown |-> "exception"]
       ELSE \E nb \in KNeighbors(df, TitleToIndex(df, movie_input)) :
            \E results \in RecommendHybrid(df, algo, movie_input, user_id, n, nb) :
                 ui' = [kind |-> "hybrid", movie_title |-> movie_input,
                        user_id |-> user_id, n |-> n, nb |-> nb,
                        scored |-> Scored(df, algo, user_id, Candidates(df, nb)),
                        results |-> results.rows, shown |-> Shown(results)]
  /\ UNCHANGED <<program, csv, pc, df, trainset, testset, algo, fitpos, prev>>

\* the kernel or the Streamlit server is started again over the same csv
Restart ==
  /\ pc = "ready"
  /\ program # "app4"
  /\ prev = None
  /\ prev' = [kind |-> "run", trainset |-> trainset, testset |-> testset, algo |-> algo]
  /\ pc' = "start"
  /\ df' = << >>
  /\ trainset' = << >>
  /\ testset' = << >>
  /\ algo' = None
  /\ fitpos' = <<0, 0>>
  /\ ui' = None
  /\ UNCHANGED <<program, csv, clicked>>

\* one process of a script, with its cells and buttons
Next ==
  \/ LoadData
  \/ Split
  \/ FitBegin
  \/ FitStep
  \/ PredictCell
  \/ PredictRating
  \/ GetRecommendations
  \/ Evaluate
  \/ Recommend
  \/ RecommendClicked

Spec == Init /\ [][Next]_vars

\* a script run up to the fitted model, and run again by a second process
NextRerun ==
  \/ LoadData
  \/ Split
  \/ FitBegin
  \/ FitStep
  \/ Restart

RerunSpec == Init /\ [][NextRerun]_vars

\* a script run up to the fitted model over a csv nobody cleaned
InitRaw ==
  /\ program \in Programs
  /\ csv \in RawCsvs
  /\ pc = "start"
  /\ df = << >>
  /\ trainset = << >>
  /\ testset = << >>
  /\ algo = None
  /\ fitpos = <<0, 0>>
  /\ ui = None
  /\ clicked = FALSE
  /\ prev = None

NextLoad ==
  \/ LoadData
  \/ Split
  \/ FitBegin
  \/ FitStep

LoadSpec == InitRaw /\ [][NextLoad]_vars

\* an evaluation cell on its own: y_true and y_pred are there, the metrics
\* are not computed yet
InitScored ==
  /\ program \in {"collaborative", "hybrid_eval"}
  /\ csv = << >>
  /\ pc = "ready"
  /\ df = << >>
  /\ trainset = << >>
  /\ testset = << >>
  /\ algo = None
  /\ fitpos = <<n_epochs + 1, 1>>
  /\ \E sc \in ScoredSets : ui = [kind |-> "scored", y_true |-> sc.y_true, y_pred |-> sc.y_pred]
  /\ clicked = FALSE
  /\ prev = None

\* the metric lines of the evaluation cells
EvaluateScored ==
  /\ pc = "ready"
  /\ ui.kind = "scored"
  /\ ui' = EvaluationCell(<< >>, << >>, ui.y_true, ui.y_pred)
  /\ UNCHANGED <<program, csv, pc, df, trainset, testset, algo, fitpos, clicked, prev>>

NextMetrics == EvaluateScored

MetricsSpec == InitScored /\ [][NextMetrics]_vars

(***************************************************************************)
(* Properties.                                                             *)
(***************************************************************************)
InScale(x) == ~IsNaN(x) /\ lower_bound <= x /\ x <= higher_bound

Known(s, x) == \E k \in 1..Len(s) : s[k] = x

MoviesOf(frame) == {frame[k].movieId : k \in 1..Len(frame)}

RatedBy(frame, user_id) == {frame[k].movieId : k \in {j \in 1..Len(frame) : frame[j].userId = user_id}}

\* C1: every prediction of the fitted model lies in the rating scale
\* [0.5, 5.0]: for every user id and movie id, known or not, and so every
\* prediction shown, ranked, blended or evaluated.
C1_PredictInScale ==
  /\ pc = "ready" => \A uid \in UiUsers, iid \in Movies : InScale(Predict(algo, uid, iid))
  /\ ui.kind = "predict" => InScale(ui.est)
  /\ ui.kind = "recs" => \A k \in 1..Len(ui.top_preds) : InScale(ui.top_preds[k].est)
  /\ ui.kind = "hybrid" => \A k \in 1..Len(ui.scored) : InScale(ui.scored[k].svd_score)
  /\ ui.kind = "evaluation" => \A k \in 1..Len(ui.predictions) : InScale(ui.predictions[k].est)

\* a prediction was shown whose unclipped estimate lies above the scale
C1_Witness ==
  /\ ui.kind = "predict"
  /\ Estimate(algo, IndexOf(algo.users, ui.uid), IndexOf(algo.items, ui.iid)) > higher_bound
  /\ ui.est = higher_bound

\* C2: the prediction for a user the training set lacks is clip(mu + bi),
\* for a movie it lacks clip(mu + bu), for both clip(mu); it is always a
\* number, never an error, whatever user id the form gives and also for a
\* movie that only the held-out part holds.
C2_ColdStartFallback ==
  ui.kind = "predict" =>
    LET ku == Known(algo.users, ui.uid)
        ki == Known(algo.items, ui.iid)
        mu == algo.global_mean
        bu == algo.bu[CHOOSE k \in 1..Len(algo.users) : algo.users[k] = ui.uid]
        bi == algo.bi[CHOOSE k \in 1..Len(algo.items) : algo.items[k] = ui.iid]
        clip(x) == IF FLt(x, lower_bound) THEN lower_bound
                   ELSE IF FLt(higher_bound, x) \/ IsNaN(x) THEN higher_bound ELSE x
    IN /\ InScale(ui.est)
       /\ (~ku /\ ki) => ui.est = clip(FAdd(mu, bi))
       /\ (ku /\ ~ki) => ui.est = clip(FAdd(mu, bu))
       /\ (~ku /\ ~ki) => ui.est = clip(mu)

\* a user of no training row asked about a movie of the training set whose
\* bias has moved, and the answer is strictly inside the scale
C2_Witness ==
  /\ ui.kind = "predict"
  /\ ~Known(algo.users, ui.uid)
  /\ Known(algo.items, ui.iid)
  /\ algo.bi[IndexOf(algo.items, ui.iid)] # 0
  /\ lower_bound < ui.est
  /\ ui.est < higher_bound

\* C3: get_top_n_recommendations returns the movies by falling predicted
\* rating, exactly min(n, movies of df the user has not rated) of them; the
\* warning is shown only to a user who rated every movie.
C3_TopNLengthAndOrder ==
  ui.kind = "recs" =>
    LET unseen == MoviesOf(df) \ RatedBy(df, ui.user_id)
        want == IF ui.n < Cardinality(unseen) THEN ui.n ELSE Cardinality(unseen)
    IN /\ Len(ui.top_recs) = want
       /\ Len(ui.top_preds) = want
       /\ \A k \in 1..(Len(ui.top_preds) - 1) : ui.top_preds[k].est >= ui.top_preds[k + 1].est
       /\ \A k \in 1..(Len(ui.top_recs) - 1) : ui.top_recs[k].score >= ui.top_recs[k + 1].score
       /\ \A k \in 1..Len(ui.top_recs) : ui.top_recs[k].score = Round2(ui.top_preds[k].est)
       /\ (ui.shown = "warning") <=> (unseen = {})
       /\ (RatedBy(df, ui.user_id) = {} /\ Cardinality(MoviesOf(df)) >= ui.n) => Len(ui.top_recs) = ui.n

\* the list was cut to n, and its first entry scores strictly higher than
\* its second
C3_Witness ==
  /\ ui.kind = "recs"
  /\ Cardinality(MoviesOf(df) \ RatedBy(df, ui.user_id)) > ui.n
  /\ Len(ui.top_recs) >= 2
  /\ ui.top_recs[1].score > ui.top_recs[2].score

\* C4: no movie the user has a row for is recommended, and every
\* recommended movie is a movie of df.
C4_OnlyUnseen ==
  ui.kind = "recs" =>
    \A k \in 1..Len(ui.top_preds) :
      /\ ui.top_preds[k].iid \notin RatedBy(df, ui.user_id)
      /\ ui.top_preds[k].iid \in MoviesOf(df)

\* a user who has rated some movie got a recommendation
C4_Witness ==
  /\ ui.kind = "recs"
  /\ RatedBy(df, ui.user_id) # {}
  /\ Len(ui.top_preds) > 0

\* C5: recommend_hybrid returns at most n rows by falling hybrid_score, and
\* they are the n best of the content-similar candidates: all of them when
\* there are no more than n, and no candidate left out scores strictly
\* higher than a returned row.
C5_HybridTopN ==
  (ui.kind = "hybrid" /\ ui.shown # "exception") =>
    /\ Len(ui.results) <= ui.n
    /\ Len(ui.results) = (IF ui.n < Len(ui.scored) THEN ui.n ELSE Len(ui.scored))
    /\ \A k \in 1..Len(ui.results) : \E j \in 1..Len(ui.scored) : ui.scored[j] = ui.results[k]
    /\ \A k \in 1..(Len(ui.results) - 1) :
         ~FLt(ui.results[k].hybrid_score, ui.results[k + 1].hybrid_score)
    /\ \A j \in 1..Len(ui.scored) :
         (\A k \in 1..Len(ui.results) : ui.results[k] # ui.scored[j]) =>
           \A k \in 1..Len(ui.results) : ~FLt(ui.results[k].hybrid_score, ui.scored[j].hybrid_score)

\* the row returned was not the first candidate, and the candidate left out
\* scores strictly lower
C5_Witness ==
  /\ ui.kind = "hybrid"
  /\ ui.shown = "table"
  /\ Len(ui.scored) > ui.n
  /\ ui.results[1] # ui.scored[1]
  /\ FLt(ui.scored[1].hybrid_score, ui.results[1].hybrid_score)

\* C6: the hybrid score of every scored movie is (vote_average + svd_score)
\* / 2 with svd_score the model's prediction for the input user and that
\* movie, in recommend_hybrid and in the hybrid evaluation alike.
C6_HybridScoreFormula ==
  /\ ui.kind = "hybrid" =>
       \A k \in 1..Len(ui.scored) :
         LET row == ui.scored[k]
         IN /\ row.svd_score = Predict(algo, ui.user_id, row.movieId)
            /\ row.vote_average = VoteAverage(row.movieId)
            /\ IF IsNaN(row.vote_average) THEN IsNaN(row.hybrid_score)
               ELSE 2 * row.hybrid_score \in {row.vote_average + row.svd_score,
                                              row.vote_average + row.svd_score - 1}
  /\ (ui.kind = "evaluation" /\ program = "hybrid_eval") =>
       \A k \in 1..Len(ui.pred_df) :
         LET row == ui.pred_df[k]
         IN /\ row.svd_pred = Predict(algo, row.userId, row.movieId)
            /\ row.vote_average = VoteAverage(row.movieId)
            /\ 2 * row.hybrid_pred \in {row.vote_average + row.svd_pred,
                                        row.vote_average + row.svd_pred - 1}

\* recommend_hybrid returned a row with a score
C6_Witness ==
  /\ ui.kind = "hybrid"
  /\ Len(ui.results) > 0
  /\ ~IsNaN(ui.results[1].hybrid_score)

\* C7: a Recommend click that finds nothing shows the warning and no click
\* ends in an unhandled error.
C7_WarningNeverError ==
  ui.kind = "hybrid" =>
    /\ ui.shown # "exception"
    /\ Len(ui.results) = 0 => ui.shown = "warning"

\* C8: a second fit over the same csv gives the parameters of the first.
C8_FitDeterministic ==
  (pc = "ready" /\ prev.kind = "run") => algo = prev.algo

\* C9: the split is a partition of the rows, the same in every process:
\* each row of df is in exactly one of trainset and testset, once.
C9_SplitPartition ==
  (program # "app4" /\ pc \in {"split", "fit", "ready"}) =>
    /\ \A r \in 1..Len(df) :
         Cardinality({k \in 1..Len(trainset) : trainset[k] = r})
           + Cardinality({k \in 1..Len(testset) : testset[k] = r}) = 1
    /\ \A k \in 1..Len(trainset) : trainset[k] \in 1..Len(df)
    /\ \A k \in 1..Len(testset) : testset[k] \in 1..Len(df)
    /\ Len(testset) = NTest(Len(df))
    /\ \A a \in 1..Len(trainset), b \in 1..Len(testset) : df[trainset[a]] # df[testset[b]]
    /\ prev.kind = "run" => (trainset = prev.trainset /\ testset = prev.testset)

\* a second process has split the csv into a training and a test part
C9_Witness ==
  /\ pc = "split"
  /\ prev.kind = "run"
  /\ Len(trainset) >= 2
  /\ Len(testset) >= 1

\* C10: once fit has returned, no prediction, evaluation or recommendation
\* changes the model, and what a prediction shows is the fitted model's
\* value for the pair whatever was asked before.
C10_ModelFrozen ==
  [][(pc = "ready" /\ pc' = "ready") =>
       /\ algo' = algo
       /\ ui'.kind = "predict" => ui'.est = Predict(algo, ui'.uid, ui'.iid)]_vars

\* a prediction of a model fitted on some rating has been shown
C10_Witness ==
  /\ pc = "ready"
  /\ ui.kind = "predict"
  /\ Len(algo.users) > 0

\* the confusion counts of an evaluation, counted from the values
TP == Cardinality({k \in 1..Len(ui.y_true) : ui.y_true[k] >= threshold /\ ui.y_pred[k] >= threshold})
FP == Cardinality({k \in 1..Len(ui.y_true) : ui.y_true[k] < threshold /\ ui.y_pred[k] >= threshold})
FN == Cardinality({k \in 1..Len(ui.y_true) : ui.y_true[k] >= threshold /\ ui.y_pred[k] < threshold})
TN == Cardinality({k \in 1..Len(ui.y_true) : ui.y_true[k] < threshold /\ ui.y_pred[k] < threshold})

\* the ratio f is n / d
Is(f, n, d) == f.den # 0 /\ f.num * d = n * f.den

\* C11: the labels are 1 exactly for the values >= 3.5; accuracy is
\* (TP+TN)/N, precision TP/(TP+FP), recall TP/(TP+FN), f1
\* 2*precision*recall/(precision+recall); actual [5.0, 2.0] with predicted
\* [4.0, 4.5] gives 1/2, 1/2, 1 and 2/3.
C11_ClassificationMetrics ==
  ui.kind = "evaluation" =>
    LET cm == ui.classification
    IN /\ \A k \in 1..Len(ui.y_true) :
            /\ cm.y_true_bin[k] = (IF ui.y_true[k] >= threshold THEN 1 ELSE 0)
            /\ cm.y_pred_bin[k] = (IF ui.y_pred[k] >= threshold THEN 1 ELSE 0)
       /\ Is(cm.accuracy, TP + TN, Len(ui.y_true))
       /\ TP + FP > 0 => Is(cm.precision, TP, TP + FP)
       /\ TP + FN > 0 => Is(cm.recall, TP, TP + FN)
       /\ TP > 0 => Is(cm.f1, 2 * TP * TP, TP * (TP + FN) + TP * (TP + FP))
       /\ (ui.y_true = <<higher_bound, 2000>> /\ ui.y_pred = <<4000, 4500>>) =>
            /\ Is(cm.accuracy, 1, 2)
            /\ Is(cm.precision, 1, 2)
            /\ Is(cm.recall, 1, 1)
            /\ Is(cm.f1, 2, 3)

\* the metrics of actual [5.0, 2.0], predicted [4.0, 4.5] were computed
C11_Witness ==
  /\ ui.kind = "evaluation"
  /\ ui.y_true = <<higher_bound, 2000>>
  /\ ui.y_pred = <<4000, 4500>>

\* C12: with no predicted positive the precision, with no actual positive
\* the recall, and with either the f1 is the fixed value 0, never NaN and
\* never an error.
C12_ZeroDenominator ==
  ui.kind = "evaluation" =>
    LET cm == ui.classification
    IN /\ TP + FP = 0 => cm.precision = Frac(0, 1)
       /\ TP + FN = 0 => cm.recall = Frac(0, 1)
       /\ TP = 0 => cm.f1 = Frac(0, 1)
       /\ \A f \in {cm.precision, cm.recall, cm.f1, cm.accuracy} : ~IsNaN(f.num) /\ f.den > 0

\* an evaluation with actual positives and no predicted positive
C12_Witness ==
  /\ ui.kind = "evaluation"
  /\ TP + FP = 0
  /\ FN > 0

\* C13: the metrics are computed over every rating of the test split and
\* nothing else: one (actual, predicted) pair per test rating, in order, a
\* rating of an unknown user or item with the fallback prediction, and in
\* the hybrid evaluation no row is lost to the vote_average map and dropna.
C13_MetricsOverAllTestRows ==
  (ui.kind = "evaluation" /\ program \in {"collaborative", "hybrid_eval"}) =>
    /\ Len(ui.predictions) = Len(testset)
    /\ \A k \in 1..Len(testset) :
         /\ ui.predictions[k].uid = df[testset[k]].userId
         /\ ui.predictions[k].iid = df[testset[k]].movieId
         /\ ui.predictions[k].r_ui = df[testset[k]].rating
         /\ ui.predictions[k].est = Predict(algo, df[testset[k]].userId, df[testset[k]].movieId)
    /\ Len(ui.y_true) = Len(testset)
    /\ Len(ui.y_pred) = Len(testset)
    /\ \A k \in 1..Len(testset) : ui.y_true[k] = df[testset[k]].rating
    /\ program = "collaborative" => \A k \in 1..Len(testset) : ui.y_pred[k] = ui.predictions[k].est
    /\ program = "hybrid_eval" =>
         /\ Len(ui.pred_df) = Len(testset)
         /\ \A k \in 1..Len(testset) : ui.y_pred[k] = ui.pred_df[k].hybrid_pred
    /\ ui.regression.n_samples = Len(testset)
    /\ ui.classification.accuracy.den = Len(testset)
    /\ Len(ui.classification.y_true_bin) = Len(testset)
    /\ Len(ui.classification.y_pred_bin) = Len(testset)

\* a hybrid evaluation over a csv that had a row without vote_average, with
\* a test rating of a movie the model does not know
C13_Witness ==
  /\ ui.kind = "evaluation"
  /\ program = "hybrid_eval"
  /\ Len(df) < Len(csv)
  /\ Len(testset) > 0
  /\ \E k \in 1..Len(testset) : ~Known(algo.items, df[testset[k]].movieId)

\* C14: a csv with a rating outside [0.5, 5.0] or a row without userId or
\* movieId is refused when it is loaded, so the script never gets past the
\* load and no such row is in a training set that fit works on.
C14_ValidationAtLoad ==
  LET Valid(row) == InScale(row.rating) /\ ~IsNaN(row.userId) /\ ~IsNaN(row.movieId)
  IN /\ (\E k \in 1..Len(csv) : ~Valid(csv[k])) => pc \in {"start", "crashed"}
     /\ pc \in {"fit", "ready"} => \A k \in 1..Len(trainset) : Valid(df[trainset[k]])

\* every parameter of the model a is a finite number
Finite(a) ==
  /\ ~IsNaN(a.global_mean)
  /\ \A u \in 1..Len(a.users) : ~IsNaN(a.bu[u]) /\ \A f \in 1..n_factors : ~IsNaN(a.pu[u][f])
  /\ \A i \in 1..Len(a.items) : ~IsNaN(a.bi[i]) /\ \A f \in 1..n_factors : ~IsNaN(a.qi[i][f])

\* C15: a fit that has returned a model has not diverged: every parameter
\* of the model is finite (a fit whose parameters are not ends in
\* DivergenceError and returns none), and no prediction is NaN.
C15_NoDivergedModel ==
  pc = "ready" =>
    /\ Finite(algo)
    /\ \A uid \in UiUsers, iid \in Movies : ~IsNaN(Predict(algo, uid, iid))

\* the step from the model a to the model b for the rating r of user u on
\* item i obeys the update rules for b_u, b_i, P and Q, with one error taken
\* from a and Q[i] moved with the P[u] of a, and changes nothing else but
\* (perhaps) mu
StepRules(a, b, u, i, r) ==
  LET pred == a.global_mean + a.bu[u] + a.bi[i]
                + SumSeq([f \in 1..n_factors |-> (a.qi[i][f] * a.pu[u][f]) \div (Scale * FactorUnit * FactorUnit)])
      err == r - pred
      Eta(x) == (lr_all * x) \div Scale
      Lambda(x) == (reg_all * x) \div Scale
  IN /\ b.users = a.users
     /\ b.items = a.items
     /\ b.bu[u] = a.bu[u] + Eta(err - Lambda(a.bu[u]))
     /\ b.bi[i] = a.bi[i] + Eta(err - Lambda(a.bi[i]))
     /\ \A f \in 1..n_factors :
          /\ b.pu[u][f] = a.pu[u][f] + Eta((err * a.qi[i][f]) \div Scale - Lambda(a.pu[u][f]))
          /\ b.qi[i][f] = a.qi[i][f] + Eta((err * a.pu[u][f]) \div Scale - Lambda(a.qi[i][f]))
     /\ \A v \in 1..Len(a.users) : v # u => (b.bu[v] = a.bu[v] /\ b.pu[v] = a.pu[v])
     /\ \A j \in 1..Len(a.items) : j # i => (b.bi[j] = a.bi[j] /\ b.qi[j] = a.qi[j])

\* the error of the rating the running fit is at, from the current model
ErrHere ==
  LET t == AllRatings(df, trainset)[fitpos[2]]
  IN t[3] - (algo.global_mean + algo.bu[t[1]] + algo.bi[t[2]]
              + SumSeq([f \in 1..n_factors |-> (algo.qi[t[2]][f] * algo.pu[t[1]][f]) \div (Scale * FactorUnit * FactorUnit)]))

\* C16 as stated: each step of fit follows the update rules, Q[i] with the
\* P[u] from before the step, nothing of another user or item changes, and
\* mu moves by eta * err.
C16_SgdStepWithMu ==
  [][pc = "fit" =>
       LET t == AllRatings(df, trainset)[fitpos[2]]
       IN /\ StepRules(algo, algo', t[1], t[2], t[3])
          /\ algo'.global_mean = algo.global_mean + (lr_all * ErrHere) \div Scale]_vars

\* C16 as amended: each step of fit follows the update rules for b_u, b_i,
\* P and Q, Q[i] with the P[u] from before the step, nothing of another
\* user or item changes, and mu stays the mean of the training ratings.
C16_SgdStep ==
  [][pc = "fit" =>
       LET t == AllRatings(df, trainset)[fitpos[2]]
       IN /\ StepRules(algo, algo', t[1], t[2], t[3])
          /\ algo'.global_mean = algo.global_mean
          /\ algo'.global_mean = Mean([k \in 1..Len(trainset) |-> df[trainset[k]].rating])]_vars

\* fit has taken a step that moved a user's bias and factors and an item's
\* factors, and another user's parameters are there to be left alone
C16_Witness ==
  /\ pc = "fit"
  /\ fitpos # <<1, 1>>
  /\ Len(algo.users) >= 2
  /\ \E u \in 1..Len(algo.users) : algo.bu[u] # 0
  /\ \E u \in 1..Len(algo.users), v \in 1..Len(algo.users), f \in 1..n_factors :
       u # v /\ algo.pu[u][f] # algo.pu[v][f]

\* the SGD steps the running fit has taken
StepsDone == (fitpos[1] - 1) * Len(trainset) + fitpos[2] - 1

\* C17: fit returns after exactly n_epochs passes over the training set: a
\* pass takes the training ratings one after the other, each once; every
\* step of a running fit is one more rating done, whatever its error; and
\* the fit is over exactly when n_epochs * (training ratings) are done.
C17_FixedEpochs ==
  /\ [](pc = "fit" =>
          /\ fitpos[1] \in 1..n_epochs
          /\ fitpos[2] \in 1..Len(trainset)
          /\ StepsDone < n_epochs * Len(trainset)
          /\ Len(AllRatings(df, trainset)) = Len(trainset)
          /\ \A k \in 1..Len(trainset) :
               Cardinality({q \in 1..Len(trainset) :
                  AllRatings(df, trainset)[q] =
                    <<IndexOf(algo.users, df[trainset[k]].userId),
                      IndexOf(algo.items, df[trainset[k]].movieId), df[trainset[k]].rating>>}) = 1)
  /\ [](pc = "ready" => StepsDone = n_epochs * Len(trainset))
  /\ [][pc = "fit" =>
          LET t == AllRatings(df, trainset)[fitpos[2]]
          IN /\ StepRules(algo, algo', t[1], t[2], t[3])
             /\ StepsDone' = StepsDone + 1
             /\ fitpos' = (IF fitpos[2] < Len(trainset) THEN <<fitpos[1], fitpos[2] + 1>>
                            ELSE <<fitpos[1] + 1, 1>>)
             /\ pc' \in {"fit", "ready", "crashed"}
             /\ (pc' = "fit") <=> (StepsDone' < n_epochs * Len(trainset))]_vars

\* a fit over several ratings has returned
C17_Witness ==
  /\ pc = "ready"
  /\ fitpos = <<n_epochs + 1, 1>>
  /\ Len(trainset) >= 2

\* C18: the table recommend_hybrid returns holds no title twice, although
\* the neighbours are rows of a dataset with one row per rating.
C18_UniqueTitles ==
  ui.kind = "hybrid" =>
    \A j \in 1..Len(ui.results), k \in 1..Len(ui.results) :
      j # k => ui.results[j].title # ui.results[k].title

\* a table was shown for neighbours of which two, after the first, carry
\* the same title, and the table had room for both
C18_Witness ==
  /\ ui.kind = "hybrid"
  /\ ui.shown = "table"
  /\ ui.n >= 2
  /\ \E j \in 2..Len(ui.nb), k \in 2..Len(ui.nb) :
       j # k /\ df[ui.nb[j]].title = df[ui.nb[k]].title

\* C19: no row recommend_hybrid returns carries the selected title.
C19_NeverTheSelectedMovie ==
  (ui.kind = "hybrid" /\ ui.shown = "table") =>
    \A k \in 1..Len(ui.results) : ui.results[k].title # ui.movie_title

=============================================================================
